---- MODULE Spec2Model ----
(***************************************************************************)
(* NOVA three-layer orchestrator (predictive_coding/04_kafka_nova_ollama). *)
(*                                                                         *)
(* One caller drives NOVA.process_message round after round, as main()     *)
(* does.  Python strings are modelled as sequences of tokens so that       *)
(* f-string concatenation is \o and '' is << >>.  Python dicts are         *)
(* functions over their keys.                                              *)
(***************************************************************************)
EXTENDS Naturals, Sequences, FiniteSets, TLC

\* ------------------------------------------------------------------ bounds
\* Number of process_message calls a behaviour makes at most.
MaxRounds == 6
\* Largest value the clock read by time.time() reaches.
MaxTime == 1
\* Number of calls of publish, close and the finalizers a behaviour makes at most.
MaxCalls == 3

\* ------------------------------------------------------- program constants
\* self.context_history[-5:]
ContextCap == 5
\* self.learned_patterns[-3:]
PatternWindow == 3

MODEL_NAME == <<"llama3.2:latest">>

VARIABLES
    round,            \* position of process_message in its round
    rounds,           \* number of process_message calls made so far
    message,          \* the message of the current round
    stage,            \* per stage: state of its process coroutine in this round
    hung,             \* the stage whose inference call will never answer, or "none"
    start_time,       \* per stage: the wrapper's local start_time
    results,          \* process_message's local dict results
    caught,           \* per stage: the exception caught by process_message
    fault,            \* per stage: the exception raised inside the stage's try block
    flushCalls,       \* producers on which flush() was called in this round, in order
    flushDone,        \* producers whose flush() returned in this round, in order
    returned,         \* {} or {the dict process_message returned}
    held,             \* {} or {the context list of the Responsive entry the previous
                      \* call returned: as the caller sees it, and as it was returned}
    propagated,       \* {} or {the exception process_message raised}
    context_history,  \* ResponsiveLayer.context_history
    learned_patterns, \* ReflectiveLayer.learned_patterns
    arrived,          \* every content ResponsiveLayer.process was called with, in order
    now,              \* the clock
    wcall,            \* a call of a timed_process wrapper made on its own
    queue,            \* per layer: the payloads its producer holds undelivered
    close_calls,      \* per layer: number of close() calls made on it
    consumer_closes,  \* per layer: number of consumer.close() calls made
    close_returned,   \* per layer: whether some close() call on it has returned
    nova_close,       \* how the latest NOVA.close ended: "idle" before any
    last_call         \* the latest call of publish or close and how it ended

\* What a round of process_message reads and writes, but for the clock.
roundVars == <<round, rounds, message, stage, hung, start_time, results, caught, fault,
               flushCalls, flushDone, returned, held, propagated, context_history,
               learned_patterns, arrived>>

\* The layers' Kafka handles and the calls made on them.
apiVars == <<queue, close_calls, consumer_closes, close_returned, nova_close, last_call>>

vars == <<round, rounds, message, stage, hung, start_time, results, caught, fault,
          flushCalls, flushDone, returned, held, propagated, context_history,
          learned_patterns, arrived, now, wcall, queue, close_calls,
          consumer_closes, close_returned, nova_close, last_call>>

\* ------------------------------------------------------------ the stages
\* The keys of the tasks dict, in insertion order.
TaskOrder == <<"reactive", "responsive", "reflective">>

\* The tuple (self.reactive, self.responsive, self.reflective) of the flush loop.
FlushOrder_Swapped == <<"responsive", "reactive", "reflective">>

FlushOrder_OnlyTwo == <<"reactive", "responsive">>

FlushOrder == <<"reactive", "responsive", "reflective">>

Stages == {TaskOrder[i] : i \in 1..Len(TaskOrder)}

Settled == {"DONE", "FAILED"}

\* ---------------------------------------------------------------- helpers
Min(a, b) == IF a < b THEN a ELSE b

\* seq[-n:]
LastN(seq, n) ==
    IF Len(seq) <= n THEN seq ELSE SubSeq(seq, Len(seq) - n + 1, Len(seq))

\* d.get(k, default)
Get(d, k, default) == IF k \in DOMAIN d THEN d[k] ELSE default

\* d.update(u), as a value
Update(d, u) == u @@ d

\* d[k] = v, as a value
SetItem(d, k, v) == (k :> v) @@ d

EmptyDict == [k \in {} |-> {}]

\* ------------------------------------------------------------- exceptions
NoExc == [cls |-> "None"]

Exc(cls, msg, cause, context) ==
    [cls |-> cls, msg |-> msg, cause |-> cause, context |-> context]

\* What the inference backend raises when the call fails.
BackendError == Exc("ResponseError", <<"connection refused">>, NoExc, NoExc)

\* response['message'] on a response without that key.
KeyErrorMessage == Exc("KeyError", <<"'message'">>, NoExc, NoExc)

\* What producer.flush() raises.
FlushError == Exc("KafkaException", <<"flush timed out">>, NoExc, NoExc)

\* ------------------------------------------------ messages and responses
\* The message the caller hands to round n: a dict with a content of its own.
Message(n) == [type |-> <<"user_input">>, content |-> <<"m", ToString(n)>>]

\* The text the backend answers stage s with in round n.
Reply(s, n) == <<s, "says", ToString(n)>>

\* response of self.ollama.chat(...) when the call succeeds.
OkResponse(s, n) == [message |-> [role |-> <<"assistant">>, content |-> Reply(s, n)]]

\* A response that lacks the 'message' key.
MalformedResponse == [error |-> <<"model not found">>]

\* ------------------------------------------------------ the stage bodies
\* self.__class__-specific prefix of the stages' except blocks.
FailurePrefix(s) ==
    CASE s = "reactive"   -> <<"Reactive processing failed: ">>
      [] s = "responsive" -> <<"Responsive processing failed: ">>
      [] s = "reflective" -> <<"Reflective processing failed: ">>

\* except Exception as e: raise NOVALayerError(f"<Stage> processing failed: {e}")
StageFailure(s, e) == Exc("NOVALayerError", FailurePrefix(s) \o e.msg, NoExc, e)

\* timed_process: raise NOVALayerError(f"Layer processing failed: {e}") from e
WrapperFailure_Unchained(e) == Exc("NOVALayerError", <<"Layer processing failed">>, NoExc, NoExc)

WrapperFailure(e) == Exc("NOVALayerError", <<"Layer processing failed: ">> \o e.msg, e, e)

\* timed_process: result.update({start_time, end_time, processing_duration})
Timed_DurationIsEnd(result, st, et) ==
    Update(result, [start_time |-> st, end_time |-> et, processing_duration |-> et])

Timed(result, st, et) ==
    Update(result, [start_time |-> st, end_time |-> et, processing_duration |-> et - st])

\* self.context_history.append(content); self.context_history = self.context_history[-5:]
AppendContext_KeepOldest(history, content) ==
    IF Len(history) < ContextCap THEN Append(history, content) ELSE history

AppendContext(history, content) == LastN(Append(history, content), ContextCap)

\* Only ResponsiveLayer has a context_history: the buffer after stage s has
\* run up to its chat call.
ContextAfterStart_Shared(s, history, content) == AppendContext(history, content)

ContextAfterStart(s, history, content) ==
    IF s = "responsive" THEN AppendContext(history, content) ELSE history

\* "context": self.context_history puts the stage's list object itself into
\* the result: what the caller holds of a returned mapping r.
HeldContext(r) ==
    IF "responsive" \in DOMAIN r /\ "context" \in DOMAIN r["responsive"]
    THEN {[context |-> r["responsive"]["context"],
           at_return |-> r["responsive"]["context"]]}
    ELSE {}

\* self.context_history.append(content) acts on the list object the caller
\* still holds; the reassignment that follows binds the attribute to a new list.
AppendInPlace(h, content) == [h EXCEPT !.context = Append(h.context, content)]

\* self.learned_patterns.append(response['message']['content'])
AppendPattern_Twice(patterns, text) == Append(Append(patterns, text), text)

AppendPattern_Dropped(patterns, text) == patterns

AppendPattern(patterns, text) == Append(patterns, text)

ReactiveResult(response) ==
    [type |-> <<"reactive_response">>,
     content |-> response["message"]["content"],
     source |-> MODEL_NAME]

ResponsiveResult(response, history) ==
    [type |-> <<"responsive_response">>,
     content |-> response["message"]["content"],
     context |-> history,
     source |-> MODEL_NAME]

ReflectiveResult(response, patterns) ==
    [type |-> <<"reflective_update">>,
     content |-> response["message"]["content"],
     patterns |-> LastN(patterns, PatternWindow),
     source |-> MODEL_NAME]

\* The dict a stage's process returns, given the buffers as they are after it.
StageResult(s, response, history, patterns) ==
    CASE s = "reactive"   -> ReactiveResult(response)
      [] s = "responsive" -> ResponsiveResult(response, history)
      [] s = "reflective" -> ReflectiveResult(response, patterns)

\* ------------------------------------------------------- the orchestrator
\* results[name] = {"type": f"{name}_error", "content": str(e)}
ErrorEntry(name, e) == [type |-> <<name, "_error">>, content |-> e.msg]

\* The except branch of the await loop.
CollectError_Skip(res, name, e) == res

CollectError_DropOthers(res, name, e) == (name :> ErrorEntry(name, e))

CollectError(res, name, e) == SetItem(res, name, ErrorEntry(name, e))

\* The except branch of the flush loop: log and re-raise.
FlushFailure_Swallowed(e, res) ==
    [round |-> "COMPLETE", returned |-> {res}, propagated |-> {}]

FlushFailure(e, res) ==
    [round |-> "FLUSH_FAILED", returned |-> {}, propagated |-> {e}]

\* The values a read of time.time() can give.
ClockReads == now .. Min(now + 1, MaxTime)

\* The stage the for loop over tasks.items() awaits: stages are awaited one
\* after the other, and a coroutine only starts to run when it is awaited.
NumSettled == Cardinality({s \in Stages : stage[s] \in Settled})

Awaited == TaskOrder[NumSettled + 1]

RoundAfterSettling_SkipSettled(n) == IF n = Len(TaskOrder) THEN "FLUSHING" ELSE "FANNED_OUT"

RoundAfterSettling(n) == IF n = Len(TaskOrder) THEN "ALL_SETTLED" ELSE "FANNED_OUT"

\* ------------------------------------------------------------------ Init
\* The state after NOVA(kafka_config): empty buffers, no round in flight.
Init ==
    /\ round = "IDLE"
    /\ rounds = 0
    /\ message = EmptyDict
    /\ stage = [s \in Stages |-> "IDLE"]
    /\ hung = "none"
    /\ start_time = [s \in Stages |-> 0]
    /\ results = EmptyDict
    /\ caught = [s \in Stages |-> NoExc]
    /\ fault = [s \in Stages |-> NoExc]
    /\ flushCalls = << >>
    /\ flushDone = << >>
    /\ returned = {}
    /\ held = {}
    /\ propagated = {}
    /\ context_history = << >>
    /\ learned_patterns = << >>
    /\ arrived = << >>
    /\ now = 0
    /\ wcall = [pc |-> "idle", n |-> 0]
    /\ queue = [s \in Stages |-> << >>]
    /\ close_calls = [s \in Stages |-> 0]
    /\ consumer_closes = [s \in Stages |-> 0]
    /\ close_returned = [s \in Stages |-> FALSE]
    /\ nova_close = "idle"
    /\ last_call = [op |-> "none", n |-> 0]

\* The messages the caller may hand to its n-th call.
Messages(n) == {Message(n)}

\* --------------------------------------------------------------- actions
\* process_message is called: the three coroutine objects are created (none
\* of them runs yet) and results = {}.
ProcessMessage(m) ==
    /\ round \in {"IDLE", "COMPLETE", "FLUSH_FAILED"}
    /\ rounds < MaxRounds
    /\ round' = "FANNED_OUT"
    /\ rounds' = rounds + 1
    /\ message' = m
    /\ stage' = [s \in Stages |-> "PENDING"]
    /\ hung' = "none"
    /\ start_time' = [s \in Stages |-> 0]
    /\ results' = EmptyDict
    /\ caught' = [s \in Stages |-> NoExc]
    /\ fault' = [s \in Stages |-> NoExc]
    /\ flushCalls' = << >>
    /\ flushDone' = << >>
    /\ returned' = {}
    /\ held' = UNION {HeldContext(r) : r \in returned}
    /\ propagated' = {}
    /\ UNCHANGED <<context_history, learned_patterns, arrived, now>>
    /\ UNCHANGED <<wcall, apiVars>>

\* `await task` on the next coroutine: the wrapper reads start_time and the
\* stage's process runs up to its `await self.ollama.chat(...)`.
StartStage(s) ==
    /\ round = "FANNED_OUT"
    /\ stage[s] = "PENDING"
    /\ s = Awaited
    /\ \E t \in ClockReads :
          /\ now' = t
          /\ start_time' = [start_time EXCEPT ![s] = t]
    /\ stage' = [stage EXCEPT ![s] = "RUNNING"]
    /\ LET content == Get(message, "content", << >>) IN
          /\ context_history' = ContextAfterStart(s, context_history, content)
          /\ IF s = "responsive"
             THEN /\ arrived' = Append(arrived, content)
                  /\ held' = {AppendInPlace(h, content) : h \in held}
             ELSE UNCHANGED <<arrived, held>>
    /\ UNCHANGED <<round, rounds, message, hung, results, caught, fault, flushCalls,
                   flushDone, returned, propagated, learned_patterns>>
    /\ UNCHANGED <<wcall, apiVars>>

\* The inference call of stage s answers with a well-formed response: the
\* stage returns its dict, the wrapper adds the timing fields and the
\* orchestrator stores the entry.
ChatReturns(s) ==
    /\ round = "FANNED_OUT"
    /\ stage[s] = "RUNNING"
    /\ hung # s
    /\ LET response == OkResponse(s, rounds)
           patterns == IF s = "reflective"
                       THEN AppendPattern(learned_patterns, response["message"]["content"])
                       ELSE learned_patterns
       IN  /\ learned_patterns' = patterns
           /\ \E t \in ClockReads :
                 /\ now' = t
                 /\ results' = SetItem(results, s,
                        Timed(StageResult(s, response, context_history, patterns),
                              start_time[s], t))
    /\ stage' = [stage EXCEPT ![s] = "DONE"]
    /\ round' = RoundAfterSettling(NumSettled + 1)
    /\ UNCHANGED <<rounds, message, hung, start_time, caught, fault, flushCalls, flushDone,
                   returned, held, propagated, context_history, arrived>>
    /\ UNCHANGED <<wcall, apiVars>>

\* Stage s fails with e inside its try block: its except block raises the
\* stage's NOVALayerError, the wrapper re-raises it, and the orchestrator's
\* except branch stores the error entry.
StageFails(s, e) ==
    /\ round = "FANNED_OUT"
    /\ stage[s] = "RUNNING"
    /\ hung # s
    /\ LET raised == WrapperFailure(StageFailure(s, e)) IN
          /\ caught' = [caught EXCEPT ![s] = raised]
          /\ fault' = [fault EXCEPT ![s] = e]
          /\ results' = CollectError(results, s, raised)
    /\ stage' = [stage EXCEPT ![s] = "FAILED"]
    /\ round' = RoundAfterSettling(NumSettled + 1)
    /\ UNCHANGED <<rounds, message, hung, start_time, flushCalls, flushDone, returned,
                   held, propagated, context_history, learned_patterns, arrived, now>>
    /\ UNCHANGED <<wcall, apiVars>>

\* The inference call of stage s raises.
ChatRaises(s) == StageFails(s, BackendError)

\* The inference call answers with a response that has no 'message' key:
\* response['message'] raises KeyError.
ChatMalformed(s) ==
    /\ "message" \notin DOMAIN MalformedResponse
    /\ StageFails(s, KeyErrorMessage)

\* The inference call of stage s never answers (the code sets no timeout).
ChatHangs(s) ==
    /\ round = "FANNED_OUT"
    /\ stage[s] = "RUNNING"
    /\ hung = "none"
    /\ hung' = s
    /\ UNCHANGED <<round, rounds, message, stage, start_time, results, caught, fault,
                   flushCalls, flushDone, returned, held, propagated, context_history,
                   learned_patterns, arrived, now>>
    /\ UNCHANGED <<wcall, apiVars>>

\* layer.producer.flush() is called on the next layer of the flush loop.
CallFlush ==
    /\ round \in {"ALL_SETTLED", "FLUSHING"}
    /\ Len(flushCalls) = Len(flushDone)
    /\ Len(flushCalls) < Len(FlushOrder)
    /\ flushCalls' = Append(flushCalls, FlushOrder[Len(flushCalls) + 1])
    /\ round' = "FLUSHING"
    /\ UNCHANGED <<rounds, message, stage, hung, start_time, results, caught, fault,
                   flushDone, returned, held, propagated, context_history,
                   learned_patterns, arrived, now>>
    /\ UNCHANGED <<wcall, apiVars>>

\* The flush in progress returns.
FlushReturns ==
    /\ round = "FLUSHING"
    /\ Len(flushCalls) > Len(flushDone)
    /\ flushDone' = Append(flushDone, flushCalls[Len(flushCalls)])
    /\ UNCHANGED <<round, rounds, message, stage, hung, start_time, results, caught, fault,
                   flushCalls, returned, held, propagated, context_history,
                   learned_patterns, arrived, now>>
    /\ queue' = [queue EXCEPT ![flushCalls[Len(flushCalls)]] = << >>]
    /\ UNCHANGED <<wcall, close_calls, consumer_closes, close_returned, nova_close,
                   last_call>>

\* The flush in progress raises: the except branch logs and re-raises.
FlushRaises ==
    /\ round = "FLUSHING"
    /\ Len(flushCalls) > Len(flushDone)
    /\ LET out == FlushFailure(FlushError, results) IN
          /\ round' = out.round
          /\ returned' = out.returned
          /\ propagated' = out.propagated
    /\ held' = {}
    /\ UNCHANGED <<rounds, message, stage, hung, start_time, results, caught, fault,
                   flushCalls, flushDone, context_history, learned_patterns,
                   arrived, now>>
    /\ UNCHANGED <<wcall, apiVars>>

\* return results
Return ==
    /\ round = "FLUSHING"
    /\ Len(flushDone) = Len(FlushOrder)
    /\ round' = "COMPLETE"
    /\ returned' = {results}
    /\ held' = {}
    /\ UNCHANGED <<rounds, message, stage, hung, start_time, results, caught, fault,
                   flushCalls, flushDone, propagated, context_history,
                   learned_patterns, arrived, now>>
    /\ UNCHANGED <<wcall, apiVars>>

Next ==
    \/ \E m \in Messages(rounds + 1) : ProcessMessage(m)
    \/ \E s \in Stages : StartStage(s)
    \/ \E s \in Stages : ChatReturns(s)
    \/ \E s \in Stages : ChatRaises(s)
    \/ \E s \in Stages : ChatMalformed(s)
    \/ \E s \in Stages : ChatHangs(s)
    \/ CallFlush
    \/ FlushReturns
    \/ FlushRaises
    \/ Return

Spec == Init /\ [][Next]_vars

\* Every step that can be taken is eventually taken: the event loop runs a
\* ready coroutine, and a backend or broker call that is not hung ends.
FairSpec == Spec /\ WF_vars(Next)

\* ------------------------------------------ the layers' Kafka handles
\* for layer in (self.reactive, self.responsive, self.reflective): layer.close()
CloseOrder == <<"reactive", "responsive", "reflective">>

\* The message and the topic handed to publish.
PublishedMessage == [type |-> <<"reactive_response">>, content |-> <<"hello">>]

PublishedTopic == <<"nova.reactive">>

\* json.dumps(message).encode("utf-8")
Serialize(m) == [utf8 |-> [json |-> m]]

\* What producer.produce() raises.
ProduceError == Exc("BufferError", <<"Local: Queue full">>, NoExc, NoExc)

\* What consumer.close() raises.
ConsumerCloseError == Exc("RuntimeError", <<"Consumer already closed">>, NoExc, NoExc)

\* publish: raise KafkaPublishError(f"Failed to publish message to Kafka: {e}") from e
PublishFailure_Unchained(e) ==
    Exc("KafkaPublishError", <<"Failed to publish message to Kafka">>, NoExc, NoExc)

PublishFailure(e) ==
    Exc("KafkaPublishError", <<"Failed to publish message to Kafka: ">> \o e.msg, e, e)

\* delivery_report(err, msg): what it logs; it raises nothing.
DeliveryReport(err) ==
    IF err # NoExc THEN "Message delivery failed" ELSE "Message delivered successfully"

\* The errors a delivery can be reported with (NoExc: delivered).
DeliveryOutcomes == {NoExc, Exc("KafkaError", <<"Broker: Message timed out">>, NoExc, NoExc)}

\* What the delivery callbacks log when the payloads of q are reported: one
\* line per payload, each delivered or failed.
DeliveryLogs(q) ==
    IF q = << >> THEN {{}}
    ELSE {logs \in SUBSET {DeliveryReport(err) : err \in DeliveryOutcomes} :
              /\ logs # {}
              /\ Cardinality(logs) <= Len(q)}

\* How a close() call can go: both handles answer, producer.flush() raises,
\* or consumer.close() raises after the flush.
CloseOutcomes == {"ok", "flush_raises", "consumer_raises"}

CloseError(o) == IF o = "flush_raises" THEN FlushError ELSE ConsumerCloseError

\* close(): self.producer.flush() delivers what is queued, unless it raises.
QueueAfterClose(q, o) == IF o \in {"ok", "consumer_raises"} THEN << >> ELSE q

\* close(): self.consumer.close() is called whenever the flush did not raise;
\* nothing records that the consumer was closed before.
ConsumerClosesAfterClose(n, o) == IF o \in {"ok", "consumer_raises"} THEN n + 1 ELSE n

\* How the close() of the layer at position i goes in a NOVA.close whose
\* k-th layer raises (k = 0: none does): the loop has no try, so the layers
\* after the k-th are not reached.
OutcomeAt(i, k, how) ==
    IF k = 0 \/ i < k THEN "ok" ELSE IF i = k THEN how ELSE "untouched"

Position(s) == CHOOSE i \in 1..Len(CloseOrder) : CloseOrder[i] = s

\* layer.close() or layer.__del__() is called from outside NOVA: __del__
\* swallows whatever close() raises.
LayerClose(s, via, o) ==
    /\ last_call.n < MaxCalls
    /\ close_calls' = [close_calls EXCEPT ![s] = @ + 1]
    /\ queue' = [queue EXCEPT ![s] = QueueAfterClose(@, o)]
    /\ consumer_closes' = [consumer_closes EXCEPT ![s] = ConsumerClosesAfterClose(@, o)]
    /\ close_returned' = [close_returned EXCEPT ![s] = @ \/ o = "ok"]
    /\ \E logs \in (IF o = "flush_raises" THEN {{}} ELSE DeliveryLogs(queue[s])) :
          last_call' = [op |-> via, n |-> last_call.n + 1, layer |-> s,
                        outcome |-> IF o = "ok" \/ via = "__del__"
                                    THEN "returned" ELSE "raised",
                        error |-> IF o = "ok" \/ via = "__del__"
                                  THEN NoExc ELSE CloseError(o),
                        enqueued |-> FALSE,
                        logged |-> logs]
    /\ UNCHANGED <<roundVars, now, wcall, nova_close>>

\* NOVA.close(), awaited or run as the task NOVA.__del__ creates: the layers
\* are closed in order until one raises.
NovaClose(via, k, how) ==
    /\ last_call.n < MaxCalls
    /\ LET o(s) == OutcomeAt(Position(s), k, how) IN
          /\ close_calls' = [s \in Stages |->
                                IF o(s) = "untouched" THEN close_calls[s]
                                ELSE close_calls[s] + 1]
          /\ queue' = [s \in Stages |-> QueueAfterClose(queue[s], o(s))]
          /\ consumer_closes' =
                [s \in Stages |-> ConsumerClosesAfterClose(consumer_closes[s], o(s))]
          /\ close_returned' = [s \in Stages |-> close_returned[s] \/ o(s) = "ok"]
    /\ nova_close' = IF k = 0 THEN "returned" ELSE "raised"
    /\ last_call' = [op |-> via, n |-> last_call.n + 1, layer |-> "all",
                     outcome |-> IF k = 0 \/ via = "NOVA.__del__"
                                 THEN "returned" ELSE "raised",
                     error |-> IF k = 0 \/ via = "NOVA.__del__"
                               THEN NoExc ELSE CloseError(how),
                     enqueued |-> FALSE,
                     logged |-> {}]
    /\ UNCHANGED <<roundVars, now, wcall>>

\* NOVA.__del__() with no running event loop: asyncio.create_task raises
\* inside the finalizer, where the interpreter drops the error, and close()
\* never runs.
NovaDelWithoutLoop ==
    /\ last_call.n < MaxCalls
    /\ last_call' = [op |-> "NOVA.__del__", n |-> last_call.n + 1, layer |-> "all",
                     outcome |-> "returned",
                     error |-> NoExc,
                     enqueued |-> FALSE,
                     logged |-> {}]
    /\ UNCHANGED <<roundVars, now, wcall, queue, close_calls, consumer_closes,
                   close_returned, nova_close>>

\* publish(topic, message): produce() raises, and the error is logged and
\* raised again as KafkaPublishError.
PublishFails(s) ==
    /\ last_call.n < MaxCalls
    /\ last_call' = [op |-> "publish", n |-> last_call.n + 1, layer |-> s,
                     outcome |-> "raised",
                     error |-> PublishFailure(ProduceError),
                     enqueued |-> FALSE,
                     logged |-> {"Failed to publish message to Kafka"}]
    /\ UNCHANGED <<roundVars, now, wcall, queue, close_calls, consumer_closes,
                   close_returned, nova_close>>

\* publish(topic, message): produce() enqueues the payload and poll(0)
\* serves the delivery callbacks of the first k queued payloads.
PublishEnqueues(s, k) ==
    /\ last_call.n < MaxCalls
    /\ LET q == Append(queue[s], [topic |-> PublishedTopic,
                                  value |-> Serialize(PublishedMessage)])
       IN  /\ k <= Len(q)
           /\ queue' = [queue EXCEPT ![s] = SubSeq(q, k + 1, Len(q))]
           /\ \E logs \in DeliveryLogs(SubSeq(q, 1, k)) :
                 last_call' = [op |-> "publish", n |-> last_call.n + 1, layer |-> s,
                               outcome |-> "returned",
                               error |-> NoExc,
                               enqueued |-> TRUE,
                               logged |-> logs]
    /\ UNCHANGED <<roundVars, now, wcall, close_calls, consumer_closes,
                   close_returned, nova_close>>

LifecycleNext ==
    \/ \E s \in Stages, via \in {"close", "__del__"}, o \in CloseOutcomes :
          LayerClose(s, via, o)
    \/ \E via \in {"NOVA.close", "NOVA.__del__"}, k \in 0..Len(CloseOrder),
          how \in {"flush_raises", "consumer_raises"} : NovaClose(via, k, how)
    \/ NovaDelWithoutLoop
    \/ \E s \in Stages : PublishFails(s)
    \/ \E s \in Stages, k \in 0..MaxCalls : PublishEnqueues(s, k)

\* The calls made on the layers' handles while no round is in flight.
LifecycleSpec == Init /\ [][LifecycleNext]_vars

\* ------------------------------------------- timed_process on its own
\* What a decorated function returns: a dict, or a value of another type.
Dict(v) == [kind |-> "dict", value |-> v]

Other(v) == [kind |-> "other", value |-> v]

\* The success branch of the wrapper: isinstance(result, dict) decides
\* between result.update(...) and a new dict around the bare value.
TimedProcessResult(result, st, et) ==
    IF result.kind = "dict"
    THEN Timed(result.value, st, et)
    ELSE [result |-> result.value, start_time |-> st, end_time |-> et,
          processing_duration |-> et - st]

\* The values the decorated function of the n-th call may return: the
\* stages' dicts, a dict that has a start_time of its own, and two values
\* that are no dicts.
WrappedResults(n) ==
    {Dict(ReactiveResult(OkResponse("reactive", n))),
     Dict(ResponsiveResult(OkResponse("responsive", n), <<Message(n)["content"]>>)),
     Dict(ReflectiveResult(OkResponse("reflective", n), <<Reply("reflective", n)>>)),
     Dict([type |-> <<"custom">>, start_time |-> <<"earlier">>]),
     Other(<<"plain text">>),
     Other(<< >>)}

\* The errors the decorated function may raise.
WrappedErrors == {StageFailure(s, BackendError) : s \in Stages}

\* wrapper(self, message) is called: start_time = time.time() and the
\* decorated function is awaited.
WrapperCalled ==
    /\ wcall.pc # "running"
    /\ wcall.n < MaxRounds
    /\ \E t \in ClockReads :
          /\ now' = t
          /\ wcall' = [pc |-> "running", n |-> wcall.n + 1, start_time |-> t]
    /\ UNCHANGED <<roundVars, apiVars>>

\* The decorated function returns v: end_time = time.time() and the wrapper
\* returns the timed result.
WrappedReturns(v) ==
    /\ wcall.pc = "running"
    /\ \E t \in ClockReads :
          /\ now' = t
          /\ wcall' = [pc |-> "returned", n |-> wcall.n, start_time |-> wcall.start_time,
                       result |-> v,
                       out |-> TimedProcessResult(v, wcall.start_time, t)]
    /\ UNCHANGED <<roundVars, apiVars>>

\* The decorated function raises e: the wrapper logs and raises its own error.
WrappedRaises(e) ==
    /\ wcall.pc = "running"
    /\ wcall' = [pc |-> "raised", n |-> wcall.n, start_time |-> wcall.start_time,
                 error |-> WrapperFailure(e)]
    /\ UNCHANGED <<roundVars, apiVars, now>>

WrapperNext ==
    \/ WrapperCalled
    \/ \E v \in WrappedResults(wcall.n) : WrappedReturns(v)
    \/ \E e \in WrappedErrors : WrappedRaises(e)

\* Calls of a decorated function made one after another.
WrapperSpec == Init /\ [][WrapperNext]_vars

\* ================================================================ claims
StageNames == {"reactive", "responsive", "reflective"}

TimingFields == {"start_time", "end_time", "processing_duration"}

SuccessTag(s) ==
    CASE s = "reactive"   -> <<"reactive_response">>
      [] s = "responsive" -> <<"responsive_response">>
      [] s = "reflective" -> <<"reflective_update">>

Failed == {s \in StageNames : stage[s] = "FAILED"}

\* An entry that is the success of stage s in the current round.
WellFormedSuccess(s, entry) ==
    /\ TimingFields \cup {"type", "content", "source"} \subseteq DOMAIN entry
    /\ entry["type"] = SuccessTag(s)
    /\ entry["content"] = Reply(s, rounds)
    /\ entry["source"] = MODEL_NAME
    /\ entry["start_time"] <= entry["end_time"]
    /\ entry["processing_duration"] = entry["end_time"] - entry["start_time"]

\* How often name occurs in seq.
Count(seq, name) == Cardinality({i \in 1..Len(seq) : seq[i] = name})

\* C1: whatever process_message returns is a mapping with exactly the keys
\* reactive, responsive and reflective, and it is returned only once all
\* three stages have settled.
C1_ReturnsCompleteMapping ==
    \A r \in returned :
        /\ DOMAIN r = StageNames
        /\ \A s \in StageNames : stage[s] \in {"DONE", "FAILED"}

\* A round returned its mapping with some stages failed and some not.
C1_Witness ==
    /\ returned # {}
    /\ stage["reactive"] = "FAILED"
    /\ stage["responsive"] = "DONE"
    /\ stage["reflective"] = "FAILED"

\* C2: in a returned round in which exactly one stage failed, the entries of
\* the other two stages are present and are well-formed successes.
C2_Isolation ==
    \A r \in returned :
        Cardinality(Failed) = 1 =>
            \A s \in StageNames \ Failed :
                /\ s \in DOMAIN r
                /\ WellFormedSuccess(s, r[s])

\* A round returned in which only the second stage awaited failed.
C2_Witness ==
    /\ returned # {}
    /\ Failed = {"responsive"}

\* C3: no stage's start is ordered after a sibling's completion: once any
\* stage has settled, every stage of the round has started to run.
C3_StartsBeforeAnySettles ==
    \A s \in StageNames : \A t \in StageNames :
        stage[s] \in {"DONE", "FAILED"} => stage[t] # "PENDING"

\* C4: a stage launched in a round settles unless its own inference call
\* hangs, whatever its siblings' calls do.
C4_SiblingsNotBlocked ==
    \A s \in StageNames :
        (stage[s] = "PENDING") ~> (stage[s] \in {"DONE", "FAILED"} \/ hung = s)

\* C5 as stated: a failed stage's entry is exactly {type: "<stage>_error",
\* content: the message of the cause of the failure}.
C5_ContentIsCauseMessage ==
    \A s \in StageNames :
        stage[s] = "FAILED" =>
            /\ s \in DOMAIN results
            /\ results[s] = [type |-> <<s, "_error">>, content |-> fault[s].msg]

\* C5 as amended: a stage failure never leaves process_message; the wrapper
\* raises a NOVALayerError chained to the stage's error, which holds the
\* original cause; the entry has exactly the fields type = "<stage>_error" and
\* content = "Layer processing failed: <Stage> processing failed: <cause message>".
C5_ErrorEntry ==
    /\ \A e \in propagated : e.cls # "NOVALayerError"
    /\ \A s \in StageNames :
          stage[s] = "FAILED" =>
              /\ caught[s].cls = "NOVALayerError"
              /\ caught[s].cause.cls = "NOVALayerError"
              /\ caught[s].cause.context = fault[s]
              /\ s \in DOMAIN results
              /\ DOMAIN results[s] = {"type", "content"}
              /\ results[s]["type"] = <<s, "_error">>
              /\ results[s]["content"] =
                    <<"Layer processing failed: ", FailurePrefix(s)[1]>> \o fault[s].msg

\* A round returned in which a stage failed on a raising inference call and
\* another on a malformed response.
C5_Witness ==
    /\ returned # {}
    /\ fault["reactive"].cls = "ResponseError"
    /\ fault["reflective"].cls = "KeyError"

\* C6: no producer is flushed before all three stages have an entry, the
\* flushes happen in the order reactive, responsive, reflective, and all
\* three have returned when process_message returns.
C6_FlushOrdering ==
    /\ flushCalls # << >> =>
          /\ DOMAIN results = StageNames
          /\ \A s \in StageNames : stage[s] \in {"DONE", "FAILED"}
    /\ \A i \in 1..Len(flushCalls) :
          flushCalls[i] = <<"reactive", "responsive", "reflective">>[i]
    /\ returned # {} => flushDone = <<"reactive", "responsive", "reflective">>

\* A round returned after its three flushes.
C6_Witness ==
    /\ round = "COMPLETE"
    /\ returned # {}
    /\ Len(flushDone) = 3

\* C7: when a flush of the post-round flush step raised, the round is
\* FLUSH_FAILED, the error has left process_message and no mapping is returned.
C7_FlushFailurePropagates ==
    (round # "FLUSHING" /\ Len(flushCalls) > Len(flushDone)) =>
        /\ round = "FLUSH_FAILED"
        /\ propagated = {FlushError}
        /\ returned = {}

\* A flush raised in a round in which all three stages succeeded.
C7_Witness ==
    /\ round = "FLUSH_FAILED"
    /\ \A s \in StageNames : stage[s] = "DONE"
    /\ propagated # {}

\* C8: when a round with a failed stage returns, every stage's producer,
\* the failed stages' included, has been flushed exactly once.
C8_AllFlushedOnce ==
    (returned # {} /\ Failed # {}) =>
        \A s \in StageNames :
            /\ Count(flushCalls, s) = 1
            /\ Count(flushDone, s) = 1

\* A round with a failed last stage returned.
C8_Witness ==
    /\ returned # {}
    /\ stage["reflective"] = "FAILED"
    /\ Len(flushDone) = 3

\* C9: once ResponsiveLayer.process has run in a round, successful or not,
\* context_history has at most 5 entries, ends with the content of the
\* round's message and holds the last min(n, 5) contents in arrival order.
C9_ContextHistory ==
    LET n == Len(arrived)
        k == IF n < 5 THEN n ELSE 5
    IN  /\ Len(context_history) = k
        /\ \A i \in 1..k : context_history[i] = arrived[n - k + i]
        /\ stage["responsive"] \in {"RUNNING", "DONE", "FAILED"} =>
              /\ k > 0
              /\ context_history[k] = message["content"]

\* A failed call made after the buffer has started to evict.
C9_Witness ==
    /\ Len(arrived) > 5
    /\ stage["responsive"] = "FAILED"

\* C10: learned_patterns never holds more than 3 entries.
C10_PatternsAtMostThree == Len(learned_patterns) <= 3

\* C11: a failing ReflectiveLayer.process call leaves learned_patterns as it
\* was, and learned_patterns changes only when the stage's chat call has
\* returned successfully, by exactly the one pattern that call produced.
C11_PatternOnlyAfterSuccess ==
    [][ /\ (stage["reflective"] = "RUNNING" /\ stage'["reflective"] = "FAILED") =>
              learned_patterns' = learned_patterns
        /\ learned_patterns' # learned_patterns =>
              /\ stage["reflective"] = "RUNNING"
              /\ stage'["reflective"] = "DONE"
              /\ learned_patterns' =
                    learned_patterns \o <<Reply("reflective", rounds)>> ]_vars

\* A reflective call failed after earlier calls had stored patterns.
C11_Witness ==
    /\ stage["reflective"] = "FAILED"
    /\ Len(learned_patterns) >= 2

\* A step of stage s's process call: it starts to run, or it settles.
StageStep(s) == stage[s] \in {"PENDING", "RUNNING"} /\ stage'[s] # stage[s]

\* C17: a step of a stage's process call leaves the message and the other
\* stages' buffers as they are: only Responsive's steps change
\* context_history and only Reflective's steps change learned_patterns.
C17_StageStateExclusive ==
    [][ \A s \in StageNames :
            StageStep(s) =>
                /\ message' = message
                /\ s # "responsive" => context_history' = context_history
                /\ s # "reflective" => learned_patterns' = learned_patterns ]_vars

\* All three stages have run in a round that follows rounds which filled both buffers.
C17_Witness ==
    /\ \A s \in StageNames : stage[s] = "DONE"
    /\ Len(context_history) >= 2
    /\ Len(learned_patterns) >= 2

RoundTransitions ==
    {<<"IDLE", "FANNED_OUT">>, <<"COMPLETE", "FANNED_OUT">>,
     <<"FLUSH_FAILED", "FANNED_OUT">>, <<"FANNED_OUT", "ALL_SETTLED">>,
     <<"ALL_SETTLED", "FLUSHING">>, <<"FLUSHING", "COMPLETE">>,
     <<"FLUSHING", "FLUSH_FAILED">>}

\* C18: unless an inference call hangs, every round that was started reaches
\* COMPLETE or FLUSH_FAILED; the round state moves only along IDLE ->
\* FANNED_OUT -> ALL_SETTLED -> FLUSHING -> COMPLETE | FLUSH_FAILED; no stage
\* is PENDING or RUNNING from ALL_SETTLED on; and a new round starts only
\* from IDLE, COMPLETE or FLUSH_FAILED.
C18_RoundTerminates ==
    /\ [](round = "FANNED_OUT" =>
            <>(round \in {"COMPLETE", "FLUSH_FAILED"} \/ hung # "none"))
    /\ [][round' # round => <<round, round'>> \in RoundTransitions]_vars
    /\ [](round \in {"ALL_SETTLED", "FLUSHING", "COMPLETE", "FLUSH_FAILED"} =>
            \A s \in StageNames : stage[s] \in {"DONE", "FAILED"})
    /\ [][rounds' # rounds => round \in {"IDLE", "COMPLETE", "FLUSH_FAILED"}]_vars

\* A second round has ended after the first one failed to flush.
C18_Witness ==
    /\ rounds = 2
    /\ round = "COMPLETE"

\* C19: the context list of a returned Responsive entry keeps the value it
\* had when it was returned.
C19_ReturnedContextIsSnapshot == \A h \in held : h.context = h.at_return

\* C20: when a flush raised, no flush of a later stage was attempted, nothing
\* is returned, and the buffer updates of the round are in place: the
\* message's content ends context_history and a successful Reflective
\* call's pattern ends learned_patterns.
C20_FlushFailureKeepsUpdates ==
    round = "FLUSH_FAILED" =>
        /\ returned = {}
        /\ Len(flushCalls) = Len(flushDone) + 1
        /\ \A i \in 1..Len(flushCalls) :
              flushCalls[i] = <<"reactive", "responsive", "reflective">>[i]
        /\ context_history # << >>
        /\ context_history[Len(context_history)] = message["content"]
        /\ stage["reflective"] = "DONE" =>
              /\ learned_patterns # << >>
              /\ learned_patterns[Len(learned_patterns)] = Reply("reflective", rounds)

\* The first flush raised in a round in which Reflective stored a pattern.
C20_Witness ==
    /\ round = "FLUSH_FAILED"
    /\ flushCalls = <<"reactive">>
    /\ stage["reflective"] = "DONE"

\* C15: a result returned through the timing wrapper carries start_time,
\* end_time >= start_time and processing_duration = end_time - start_time; a
\* dict result keeps its keys, and its values under every other key than
\* these three; any other result is wrapped as {result, start_time,
\* end_time, processing_duration}.
C15_TimingFields ==
    wcall.pc = "returned" =>
        LET r == wcall.result
            o == wcall.out
        IN  /\ TimingFields \subseteq DOMAIN o
            /\ o["start_time"] = wcall.start_time
            /\ o["end_time"] = now
            /\ o["end_time"] >= o["start_time"]
            /\ o["processing_duration"] + o["start_time"] = o["end_time"]
            /\ r.kind = "dict" =>
                  /\ DOMAIN o = DOMAIN r.value \cup TimingFields
                  /\ \A k \in DOMAIN r.value \ TimingFields : o[k] = r.value[k]
            /\ r.kind # "dict" =>
                  /\ DOMAIN o = {"result"} \cup TimingFields
                  /\ o["result"] = r.value

\* A value that is no dict came back wrapped from a call that started
\* after the clock had advanced.
C15_Witness ==
    /\ wcall.pc = "returned"
    /\ wcall.result.kind = "other"
    /\ wcall.start_time = 1
    /\ wcall.out["processing_duration"] = 0

\* -------------------------------------------------------------- C12
\* C12: close() on a stage is idempotent: over any sequence of close calls
\* on the same stage (close, NOVA.close and the finalizers) the inbound
\* handle is released once, and the second and later calls raise no error.
C12_CloseIdempotent ==
    /\ \A s \in Stages : consumer_closes[s] <= 1
    /\ \A s \in Stages :
          (/\ last_call.op \in {"close", "__del__"}
           /\ last_call.layer = s
           /\ close_calls[s] >= 2) => last_call.outcome = "returned"

\* -------------------------------------------------------------- C13
\* C13: after close() has been called on a stage, a later publish on that
\* stage enqueues nothing on the outbound handle and raises no error.
C13_PublishAfterCloseIsNoOp ==
    \A s \in Stages :
        (/\ last_call.op = "publish"
         /\ last_call.layer = s
         /\ close_calls[s] >= 1)
        => (~last_call.enqueued /\ last_call.outcome = "returned")

\* -------------------------------------------------------------- C14
\* C14 as stated: a failure of the outbound handle while enqueueing or
\* while delivering is only logged; publish never raises.
C14_PublishNeverRaises ==
    last_call.op = "publish" => last_call.outcome = "returned"

\* C14: publish raises exactly when the payload could not be enqueued; the
\* failure is logged and raised as a KafkaPublishError that carries the
\* message of, and is chained to, the error of the outbound handle.  A
\* failed delivery reported by the callback is only logged: the publish that
\* serves the callback returns.
C14_PublishFailure ==
    last_call.op = "publish" =>
        /\ last_call.outcome = "raised" <=> ~last_call.enqueued
        /\ last_call.outcome = "raised" =>
              /\ last_call.error.cls = "KafkaPublishError"
              /\ last_call.error.cause = ProduceError
              /\ last_call.error.msg =
                    <<"Failed to publish message to Kafka: ">> \o ProduceError.msg
              /\ last_call.logged = {"Failed to publish message to Kafka"}
        /\ "Message delivery failed" \in last_call.logged =>
              /\ last_call.outcome = "returned"
              /\ last_call.error = NoExc

\* A publish on a layer whose earlier payload is still queued fails to
\* enqueue.
C14_Witness ==
    /\ last_call.op = "publish"
    /\ last_call.outcome = "raised"
    /\ Len(queue[last_call.layer]) = 1

\* -------------------------------------------------------------- C16
\* C16: when NOVA.close() ends, the handles of all three stages have been
\* closed, also when closing an earlier stage raises.
C16_NovaCloseClosesAll ==
    nova_close # "idle" =>
        \A s \in Stages : close_calls[s] >= 1 /\ consumer_closes[s] >= 1

====
